---- MODULE Spec2Model ----
(***************************************************************************)
(* Soft-delete lifecycle and access control of the users and products      *)
(* applications: the User and Product tables, the request handlers of      *)
(* UserViewSet and ProductViewSet with the services and repository they    *)
(* call, and the bulk actions of the two ModelAdmin classes.               *)
(*                                                                         *)
(* A handler is an operator from the tables and the request to the answer  *)
(* it returns and the tables it leaves; the action of the handler applies  *)
(* that operator to the current tables.                                    *)
(***************************************************************************)
EXTENDS Integers, FiniteSets, Sequences, TLC

(* ------------------------------ bounds -------------------------------- *)
\* users the registration endpoint may create (Spec)
MaxUsers == 2

\* products the create endpoint may store (Spec)
MaxProducts == 1

\* products the create endpoint may store (ProdSpec)
MaxCatalog == 2

\* requests served at the same time (ConcSpec)
MaxWorkers == 2

(* --------------------------- program values --------------------------- *)
ADMIN == "admin"

B2C_VISITOR == "b2c_visitor"

CORPORATE == "corporate"

HORECA == "horeca"

SUPPLIER == "supplier"

SUPPLIER_MERCHANT == "supplier_merchant"

STORAGE_CLIENT == "storage_client"

Roles == {ADMIN, B2C_VISITOR, CORPORATE, HORECA, SUPPLIER, SUPPLIER_MERCHANT, STORAGE_CLIENT}

\* A NULL deleted_at column.
NULL == 0

\* A reading of timezone.now(). The code stores it and tests the column
\* against NULL only, so one reading stands for every moment.
timezone_now == 1

\* A user_id request parameter that is no UUID.
Malformed == 0

UserIds == 1..MaxUsers

Times == {timezone_now}

UserIdParams == UserIds \cup {Malformed}

VARIABLES users, next_id, products, next_pid, inflight

vars == <<users, next_id, products, next_pid, inflight>>

(* ------------------------------ helpers ------------------------------- *)
\* f with key k removed / set
Without(f, k) == [x \in DOMAIN f \ {k} |-> f[x]]

With(f, k, v) == [x \in DOMAIN f \cup {k} |-> IF x = k THEN v ELSE f[x]]

(* ------------------------------ User model ---------------------------- *)
\* UserManager.create_user: a new row with the column defaults.
NewUser(role) ==
  [role |-> role, is_active |-> TRUE, is_deleted |-> FALSE, deleted_at |-> NULL]

\* UserManager.get_queryset: the default manager hides soft-deleted rows.
UserManager_get_queryset(us) == {u \in DOMAIN us : ~us[u].is_deleted}

\* UserManager.all_with_deleted
all_with_deleted(us) == DOMAIN us

\* User.soft_delete: the three columns written by save(update_fields=...).
User_soft_delete(u, now) ==
  [u EXCEPT !.is_deleted = TRUE, !.deleted_at = now, !.is_active = FALSE]

\* User.restore that forgets the timestamp column.
User_restore_keeps_timestamp(u) ==
  [u EXCEPT !.is_deleted = FALSE, !.is_active = TRUE]

\* User.restore
User_restore(u) ==
  [u EXCEPT !.is_deleted = FALSE, !.deleted_at = NULL, !.is_active = TRUE]

\* UserRepository.get_by_id: TRUE when the lookup returns a user. A value
\* that is no UUID raises ValueError, a hidden or missing row DoesNotExist;
\* both are answered with None.
get_by_id(us, user_id) ==
  /\ user_id # Malformed
  /\ user_id \in UserManager_get_queryset(us)

\* request.user of a request that passed IsAuthenticated: a stored row the
\* default manager returns, with is_active set.
Authenticated(us, p) ==
  /\ p \in UserManager_get_queryset(us)
  /\ us[p].is_active

\* The views' mapping of a service error to a status code.
ErrorStatus(error) ==
  IF error = "" THEN 200
  ELSE IF error \in {"User not found", "User not found."} THEN 404
  ELSE 400

(* ---------------------------- user services --------------------------- *)
\* UserRegistrationService.register -> UserManager.create_user
UserRegistrationService_register(us, id, role) ==
  [error |-> "", users |-> With(us, id, NewUser(role))]

\* UserUpdateService.update with validated data that sets the role
UserUpdateService_update(us, user_id, role) ==
  IF ~get_by_id(us, user_id) THEN [error |-> "User not found.", users |-> us]
  ELSE [error |-> "", users |-> [us EXCEPT ![user_id].role = role]]

\* UserActivationService.deactivate
UserActivationService_deactivate(us, user_id) ==
  IF ~get_by_id(us, user_id) THEN [error |-> "User not found.", users |-> us]
  ELSE [error |-> "", users |-> [us EXCEPT ![user_id].is_active = FALSE]]

\* UserDeleteService.soft_delete
UserDeleteService_soft_delete(us, user_id, now) ==
  IF ~get_by_id(us, user_id) THEN [error |-> "User not found", users |-> us]
  ELSE IF us[user_id].is_deleted THEN [error |-> "User is already deleted", users |-> us]
  ELSE [error |-> "", users |-> [us EXCEPT ![user_id] = User_soft_delete(@, now)]]

\* Product.supplier is on_delete=CASCADE: the rows left when a user goes.
CascadeProducts(ps, user_id) ==
  [x \in {y \in DOMAIN ps : ps[y].supplier # user_id} |-> ps[x]]

\* UserDeleteService.hard_delete
UserDeleteService_hard_delete(us, ps, user_id) ==
  IF ~get_by_id(us, user_id)
    THEN [error |-> "User not found", users |-> us, products |-> ps]
    ELSE [error |-> "", users |-> Without(us, user_id),
          products |-> CascadeProducts(ps, user_id)]

\* UserDeleteService.restore. The lookup goes through
\* all_with_deleted().filter(user_id=...); a value that is no UUID raises
\* there and is caught by the service's except clause.
UserDeleteService_restore(us, user_id) ==
  IF user_id = Malformed THEN [error |-> "Error restoring user", users |-> us]
  ELSE IF user_id \notin all_with_deleted(us) THEN [error |-> "User not found", users |-> us]
  ELSE IF ~us[user_id].is_deleted THEN [error |-> "User is not deleted", users |-> us]
  ELSE [error |-> "", users |-> [us EXCEPT ![user_id] = User_restore(@)]]

\* UserAdmin.activate_users / deactivate_users: queryset.update(is_active=...)
\* on rows of UserAdmin.get_queryset, which is all_with_deleted().
UserAdmin_set_active(us, selected, value) ==
  [u \in DOMAIN us |->
     IF u \in selected THEN [us[u] EXCEPT !.is_active = value] ELSE us[u]]

(* ------------------------- user request handlers ---------------------- *)
\* The user endpoints below are behind IsAuthenticated.
SomeoneAuthenticated == \E p \in DOMAIN users : Authenticated(users, p)

\* register / UserViewSet.create
Register(role) ==
  /\ next_id <= MaxUsers
  /\ users' = UserRegistrationService_register(users, next_id, role).users
  /\ next_id' = next_id + 1
  /\ UNCHANGED <<products, next_pid, inflight>>

\* UserViewSet.update_user
UpdateUser(user_id, role) ==
  /\ SomeoneAuthenticated
  /\ users' = UserUpdateService_update(users, user_id, role).users
  /\ UNCHANGED <<next_id, products, next_pid, inflight>>

\* UserViewSet.deactivate_user
DeactivateUser(user_id) ==
  /\ SomeoneAuthenticated
  /\ users' = UserActivationService_deactivate(users, user_id).users
  /\ UNCHANGED <<next_id, products, next_pid, inflight>>

\* UserViewSet.soft_delete_user
SoftDeleteUser(user_id, now) ==
  /\ SomeoneAuthenticated
  /\ users' = UserDeleteService_soft_delete(users, user_id, now).users
  /\ UNCHANGED <<next_id, products, next_pid, inflight>>

\* UserViewSet.hard_delete_user
HardDeleteUser(user_id) ==
  /\ SomeoneAuthenticated
  /\ LET r == UserDeleteService_hard_delete(users, products, user_id) IN
       /\ users' = r.users
       /\ products' = r.products
  /\ UNCHANGED <<next_id, next_pid, inflight>>

\* UserViewSet.restore_user
RestoreUser(user_id) ==
  /\ SomeoneAuthenticated
  /\ users' = UserDeleteService_restore(users, user_id).users
  /\ UNCHANGED <<next_id, products, next_pid, inflight>>

\* UserAdmin.activate_users / deactivate_users on a selection of the change list
AdminSetUsersActive(selected, value) ==
  /\ selected # {}
  /\ selected \subseteq all_with_deleted(users)
  /\ users' = UserAdmin_set_active(users, selected, value)
  /\ UNCHANGED <<next_id, products, next_pid, inflight>>

(* ----------------------------- Product model -------------------------- *)
\* ProductCreateSerializer.create: supplier is request.user; the other
\* columns take the model defaults.
NewProduct(supplier) ==
  [supplier |-> supplier, is_available |-> TRUE, is_deleted |-> FALSE, deleted_at |-> NULL]

\* Product.soft_delete
Product_soft_delete(p, now) ==
  [p EXCEPT !.is_deleted = TRUE, !.deleted_at = now, !.is_available = FALSE]

\* Product.restore that leaves is_available as soft_delete set it.
Product_restore_keeps_unavailable(p) ==
  [p EXCEPT !.is_deleted = FALSE, !.deleted_at = NULL]

\* Product.restore
Product_restore(p) ==
  [p EXCEPT !.is_deleted = FALSE, !.deleted_at = NULL, !.is_available = TRUE]

\* get_queryset without the is_deleted filter.
ProductViewSet_get_queryset_with_deleted(ps, available_only) ==
  {x \in DOMAIN ps : available_only => ps[x].is_available}

\* ProductViewSet.get_queryset: rows with is_deleted=False, and with
\* is_available=True unless the request says available_only=false.
ProductViewSet_get_queryset(ps, available_only) ==
  {x \in DOMAIN ps : ~ps[x].is_deleted /\ (available_only => ps[x].is_available)}

\* GenericAPIView.get_object over get_queryset(): TRUE when the row is found.
get_object(ps, id, available_only) ==
  id \in ProductViewSet_get_queryset(ps, available_only)

\* The role test of create with the role list of update and destroy.
MayCreate_as_update(role) == role \in {SUPPLIER, SUPPLIER_MERCHANT, ADMIN}

\* The role test of ProductViewSet.create.
MayCreate(role) == role \in {SUPPLIER, SUPPLIER_MERCHANT}

\* The permission test without the ownership comparison.
MayModify_any_supplier(us, principal, product) ==
  us[principal].role \in {SUPPLIER, SUPPLIER_MERCHANT, ADMIN}

\* The permission test shared by ProductViewSet.update and destroy.
MayModify(us, principal, product) ==
  ~ ( \/ us[principal].role \notin {SUPPLIER, SUPPLIER_MERCHANT, ADMIN}
      \/ /\ us[principal].role \in {SUPPLIER, SUPPLIER_MERCHANT}
         /\ product.supplier # principal )

(* ------------------------------ product views ------------------------- *)
\* ProductViewSet.create for request.user = principal; id is the next key.
ProductViewSet_create(us, ps, principal, id) ==
  IF ~Authenticated(us, principal) THEN [status |-> 401, products |-> ps]
  ELSE IF ~MayCreate(us[principal].role) THEN [status |-> 403, products |-> ps]
  ELSE [status |-> 201, products |-> With(ps, id, NewProduct(principal))]

\* ProductViewSet.update / partial_update with a payload setting is_available
ProductViewSet_update(us, ps, principal, id, available_only, is_available) ==
  IF ~Authenticated(us, principal) THEN [status |-> 401, products |-> ps]
  ELSE IF ~get_object(ps, id, available_only) THEN [status |-> 404, products |-> ps]
  ELSE IF ~MayModify(us, principal, ps[id]) THEN [status |-> 403, products |-> ps]
  ELSE [status |-> 200, products |-> [ps EXCEPT ![id].is_available = is_available]]

\* ProductViewSet.destroy
ProductViewSet_destroy(us, ps, principal, id, available_only, now) ==
  IF ~Authenticated(us, principal) THEN [status |-> 401, products |-> ps]
  ELSE IF ~get_object(ps, id, available_only) THEN [status |-> 404, products |-> ps]
  ELSE IF ~MayModify(us, principal, ps[id]) THEN [status |-> 403, products |-> ps]
  ELSE [status |-> 204, products |-> [ps EXCEPT ![id] = Product_soft_delete(@, now)]]

\* ProductViewSet.restore
ProductViewSet_restore(us, ps, principal, id, available_only) ==
  IF ~Authenticated(us, principal) THEN [status |-> 401, products |-> ps]
  ELSE IF us[principal].role # ADMIN THEN [status |-> 403, products |-> ps]
  ELSE IF ~get_object(ps, id, available_only) THEN [status |-> 404, products |-> ps]
  ELSE IF ~ps[id].is_deleted THEN [status |-> 400, products |-> ps]
  ELSE [status |-> 200, products |-> [ps EXCEPT ![id] = Product_restore(@)]]

\* ProductViewSet.list: the ids on the pages of the answer.
ProductViewSet_list(ps, available_only) == ProductViewSet_get_queryset(ps, available_only)

\* ProductViewSet.retrieve: TRUE when the answer is the product, not 404.
ProductViewSet_retrieve(ps, id, available_only) == get_object(ps, id, available_only)

\* ProductViewSet.search and by_category narrow get_queryset() by text
\* filters; the widest answer is the one without them.
ProductViewSet_search(ps, available_only) == ProductViewSet_get_queryset(ps, available_only)

\* ProductViewSet.by_supplier: the supplier is looked up through the default
\* user manager; an unknown supplier is answered 404, with no product.
ProductViewSet_by_supplier(us, ps, supplier, available_only) ==
  IF supplier \notin UserManager_get_queryset(us) THEN {}
  ELSE {x \in ProductViewSet_get_queryset(ps, available_only) : ps[x].supplier = supplier}

\* ProductAdmin.make_available / make_unavailable: queryset.update(is_available=...)
\* on rows of ProductAdmin.get_queryset, which is Product.objects.all().
ProductAdmin_set_available(ps, selected, value) ==
  [x \in DOMAIN ps |->
     IF x \in selected THEN [ps[x] EXCEPT !.is_available = value] ELSE ps[x]]

\* ProductAdmin.restore_products: restore() on the selected rows that are deleted.
ProductAdmin_restore_products(ps, selected) ==
  [x \in DOMAIN ps |->
     IF x \in selected /\ ps[x].is_deleted THEN Product_restore(ps[x]) ELSE ps[x]]

(* ----------------------- product request handlers --------------------- *)
CreateProduct(principal) ==
  /\ products' = ProductViewSet_create(users, products, principal, next_pid).products
  /\ next_pid' = IF products' = products THEN next_pid ELSE next_pid + 1
  /\ UNCHANGED <<users, next_id, inflight>>

UpdateProduct(principal, id, available_only, is_available) ==
  /\ products' =
       ProductViewSet_update(users, products, principal, id, available_only, is_available).products
  /\ UNCHANGED <<users, next_id, next_pid, inflight>>

DestroyProduct(principal, id, available_only, now) ==
  /\ products' =
       ProductViewSet_destroy(users, products, principal, id, available_only, now).products
  /\ UNCHANGED <<users, next_id, next_pid, inflight>>

RestoreProduct(principal, id, available_only) ==
  /\ products' = ProductViewSet_restore(users, products, principal, id, available_only).products
  /\ UNCHANGED <<users, next_id, next_pid, inflight>>

AdminSetProductsAvailable(selected, value) ==
  /\ selected # {}
  /\ selected \subseteq DOMAIN products
  /\ products' = ProductAdmin_set_available(products, selected, value)
  /\ UNCHANGED <<users, next_id, next_pid, inflight>>

AdminRestoreProducts(selected) ==
  /\ selected # {}
  /\ selected \subseteq DOMAIN products
  /\ products' = ProductAdmin_restore_products(products, selected)
  /\ UNCHANGED <<users, next_id, next_pid, inflight>>

(* --------------------------- specifications --------------------------- *)
\* The roles the registration requests of Spec carry.
RegisterRoles == {ADMIN, SUPPLIER}

NoRequests == <<>>

\* An empty database.
Init ==
  /\ users = <<>>
  /\ next_id = 1
  /\ products = <<>>
  /\ next_pid = 1
  /\ inflight = NoRequests

UserNext ==
  \/ \E role \in RegisterRoles : Register(role)
  \/ \E user_id \in UserIdParams, role \in RegisterRoles : UpdateUser(user_id, role)
  \/ \E user_id \in UserIdParams : DeactivateUser(user_id)
  \/ \E user_id \in UserIdParams, now \in Times : SoftDeleteUser(user_id, now)
  \/ \E user_id \in UserIdParams : HardDeleteUser(user_id)
  \/ \E user_id \in UserIdParams : RestoreUser(user_id)
  \/ \E selected \in SUBSET DOMAIN users, value \in BOOLEAN : AdminSetUsersActive(selected, value)

ProductNext(limit) ==
  \/ \E principal \in DOMAIN users : next_pid <= limit /\ CreateProduct(principal)
  \/ \E principal \in DOMAIN users, id \in DOMAIN products,
        available_only \in BOOLEAN, is_available \in BOOLEAN :
          UpdateProduct(principal, id, available_only, is_available)
  \/ \E principal \in DOMAIN users, id \in DOMAIN products,
        available_only \in BOOLEAN, now \in Times :
          DestroyProduct(principal, id, available_only, now)
  \/ \E principal \in DOMAIN users, id \in DOMAIN products, available_only \in BOOLEAN :
        RestoreProduct(principal, id, available_only)
  \/ \E selected \in SUBSET DOMAIN products, value \in BOOLEAN :
        AdminSetProductsAvailable(selected, value)
  \/ \E selected \in SUBSET DOMAIN products : AdminRestoreProducts(selected)

Next == UserNext \/ ProductNext(MaxProducts)

Spec == Init /\ [][Next]_vars

\* The catalogue specification: the accounts of one user of every role and
\* a second supplier, as the create_user command leaves them, and the
\* product endpoints.
SeedRoles ==
  <<ADMIN, B2C_VISITOR, CORPORATE, HORECA, SUPPLIER, SUPPLIER_MERCHANT, STORAGE_CLIENT, SUPPLIER>>

ProdInit ==
  /\ users = [u \in DOMAIN SeedRoles |-> NewUser(SeedRoles[u])]
  /\ next_id = Len(SeedRoles) + 1
  /\ products = <<>>
  /\ next_pid = 1
  /\ inflight = NoRequests

ProdNext == ProductNext(MaxCatalog)

ProdSpec == ProdInit /\ [][ProdNext]_vars

(* ---- two requests of UserViewSet served at the same time (ConcSpec) ----
   Each worker serves one soft-delete or restore request.  The service
   reads the row, tests the copy it read, and then saves the three
   columns; no transaction or row lock spans the read and the save, so
   the two are separate steps and another worker may run in between.
   inflight keeps, for each worker, its request, where it stands and the
   error it answered with. *)
Workers == 1..MaxWorkers

Answered(op, user_id, error) ==
  [op |-> op, user_id |-> user_id, pc |-> "done", error |-> error]

Loaded(op, user_id) ==
  [op |-> op, user_id |-> user_id, pc |-> "loaded", error |-> ""]

\* UserDeleteService.soft_delete up to the call of user.soft_delete()
LoadForSoftDelete(w, user_id) ==
  /\ w \notin DOMAIN inflight
  /\ SomeoneAuthenticated
  /\ inflight' = With(inflight, w,
       IF ~get_by_id(users, user_id) THEN Answered("soft_delete", user_id, "User not found")
       ELSE IF users[user_id].is_deleted
            THEN Answered("soft_delete", user_id, "User is already deleted")
            ELSE Loaded("soft_delete", user_id))
  /\ UNCHANGED <<users, next_id, products, next_pid>>

\* user.soft_delete(): save(update_fields=[is_deleted, deleted_at, is_active])
SaveSoftDelete(w, now) ==
  /\ w \in DOMAIN inflight
  /\ inflight[w].pc = "loaded"
  /\ inflight[w].op = "soft_delete"
  /\ users' = [users EXCEPT ![inflight[w].user_id] = User_soft_delete(@, now)]
  /\ inflight' = [inflight EXCEPT ![w].pc = "done"]
  /\ UNCHANGED <<next_id, products, next_pid>>

\* UserDeleteService.restore up to the call of user.restore()
LoadForRestore(w, user_id) ==
  /\ w \notin DOMAIN inflight
  /\ SomeoneAuthenticated
  /\ inflight' = With(inflight, w,
       IF user_id \notin all_with_deleted(users) THEN Answered("restore", user_id, "User not found")
       ELSE IF ~users[user_id].is_deleted
            THEN Answered("restore", user_id, "User is not deleted")
            ELSE Loaded("restore", user_id))
  /\ UNCHANGED <<users, next_id, products, next_pid>>

\* user.restore(): save(update_fields=[is_deleted, deleted_at, is_active])
SaveRestore(w) ==
  /\ w \in DOMAIN inflight
  /\ inflight[w].pc = "loaded"
  /\ inflight[w].op = "restore"
  /\ users' = [users EXCEPT ![inflight[w].user_id] = User_restore(@)]
  /\ inflight' = [inflight EXCEPT ![w].pc = "done"]
  /\ UNCHANGED <<next_id, products, next_pid>>

\* The accounts the workers find: each one live or soft-deleted.
ConcInit ==
  /\ users \in [UserIds -> {NewUser(ADMIN), User_soft_delete(NewUser(ADMIN), timezone_now)}]
  /\ next_id = MaxUsers + 1
  /\ products = <<>>
  /\ next_pid = 1
  /\ inflight = NoRequests

ConcNext ==
  \/ \E w \in Workers, user_id \in UserIds : LoadForSoftDelete(w, user_id)
  \/ \E w \in Workers, now \in Times : SaveSoftDelete(w, now)
  \/ \E w \in Workers, user_id \in UserIds : LoadForRestore(w, user_id)
  \/ \E w \in Workers : SaveRestore(w)

ConcSpec == ConcInit /\ [][ConcNext]_vars

(* ================================ claims =============================== *)
SUPPLIER_ROLES == {"supplier", "supplier_merchant"}

(* C1: in every reachable state every stored user and every stored product
   has is_deleted set exactly when deleted_at holds a timestamp. *)
C1_DeletedIffTimestamp ==
  /\ \A u \in DOMAIN users : users[u].is_deleted <=> users[u].deleted_at # NULL
  /\ \A x \in DOMAIN products : products[x].is_deleted <=> products[x].deleted_at # NULL

\* a soft-deleted user next to a restored-or-live one, and a soft-deleted product
C1_Witness ==
  /\ \E u \in DOMAIN users : users[u].is_deleted /\ users[u].deleted_at = timezone_now
  /\ \E u \in DOMAIN users : ~users[u].is_deleted /\ users[u].deleted_at = NULL
  /\ \E x \in DOMAIN products : products[x].is_deleted /\ products[x].deleted_at = timezone_now

(* C2 (as claimed): every soft-deleted user has is_active = FALSE and every
   soft-deleted product has is_available = FALSE, whatever operation ran. *)
C2_DeletedImpliesUnusable ==
  /\ \A u \in DOMAIN users : users[u].is_deleted => ~users[u].is_active
  /\ \A x \in DOMAIN products : products[x].is_deleted => ~products[x].is_available

(* C3 (as claimed): soft_delete of a user that is already soft-deleted is
   answered "User is already deleted" and leaves the users table as it is. *)
C3_SecondSoftDeleteIsAlreadyDeleted ==
  \A u \in DOMAIN users, now \in Times :
    (SomeoneAuthenticated /\ users[u].is_deleted) =>
      LET r == UserDeleteService_soft_delete(users, u, now) IN
        /\ r.error = "User is already deleted"
        /\ r.users = users

(* C4 (as claimed): restore of a user that is not soft-deleted is answered
   "User is not deleted", restore by an Admin of a product that is not
   soft-deleted is answered 400 "Product is not deleted", and neither
   changes a row. *)
C4_RestoreOfActiveIsNotDeleted ==
  /\ \A u \in DOMAIN users :
       (SomeoneAuthenticated /\ ~users[u].is_deleted) =>
         LET r == UserDeleteService_restore(users, u) IN
           /\ r.error = "User is not deleted"
           /\ ErrorStatus(r.error) = 400
           /\ r.users = users
  /\ \A principal \in DOMAIN users, id \in DOMAIN products, available_only \in BOOLEAN :
       ( /\ Authenticated(users, principal)
         /\ users[principal].role = "admin"
         /\ ~products[id].is_deleted ) =>
         LET r == ProductViewSet_restore(users, products, principal, id, available_only) IN
           /\ r.status = 400
           /\ r.products = products

\* The three columns of the lifecycle, deleted_at by its presence.
UserFlags(u) == <<u.is_deleted, u.deleted_at # NULL, u.is_active>>

ProductFlags(p) == <<p.is_deleted, p.deleted_at # NULL, p.is_available>>

(* C5 (as claimed): for every entity that is not soft-deleted, whatever its
   usability flag, soft_delete followed by restore gives back the values
   of is_deleted, the presence of deleted_at and the usability flag. *)
C5_RoundTripAnyFlag ==
  /\ \A u \in DOMAIN users, now \in Times :
       ~users[u].is_deleted =>
         LET d == UserDeleteService_soft_delete(users, u, now)
             r == UserDeleteService_restore(d.users, u)
         IN  d.error = "" /\ r.error = "" /\ UserFlags(r.users[u]) = UserFlags(users[u])
  /\ \A x \in DOMAIN products, now \in Times :
       ~products[x].is_deleted =>
         ProductFlags(Product_restore(Product_soft_delete(products[x], now)))
           = ProductFlags(products[x])

(* C5 (amended): for every entity that is not soft-deleted, soft_delete
   followed by restore both succeed and leave is_deleted false, deleted_at
   absent and the usability flag true; these are the values before the
   soft_delete exactly when the usability flag was true before it, and
   every other column and row is as before. *)
C5_RoundTrip ==
  /\ \A u \in DOMAIN users, now \in Times :
       ~users[u].is_deleted =>
         LET d == UserDeleteService_soft_delete(users, u, now)
             r == UserDeleteService_restore(d.users, u)
         IN  /\ d.error = "" /\ r.error = ""
             /\ UserFlags(d.users[u]) = <<TRUE, TRUE, FALSE>>
             /\ UserFlags(r.users[u]) = <<FALSE, FALSE, TRUE>>
             /\ r.users = [users EXCEPT ![u].is_active = TRUE]
             /\ users[u].is_active => r.users = users
  /\ \A x \in DOMAIN products, now \in Times :
       ~products[x].is_deleted =>
         LET d == Product_soft_delete(products[x], now)
             r == Product_restore(d)
         IN  /\ ProductFlags(d) = <<TRUE, TRUE, FALSE>>
             /\ ProductFlags(r) = <<FALSE, FALSE, TRUE>>
             /\ r = [products[x] EXCEPT !.is_available = TRUE]
             /\ products[x].is_available => r = products[x]

\* a deactivated user and an unavailable product, neither soft-deleted, next
\* to a usable user and a restored row
C5_Witness ==
  /\ \E u \in DOMAIN users : ~users[u].is_deleted /\ ~users[u].is_active
  /\ \E u \in DOMAIN users : ~users[u].is_deleted /\ users[u].is_active
  /\ \E x \in DOMAIN products : ~products[x].is_deleted /\ ~products[x].is_available

(* C6 (as claimed): hard_delete of a stored user succeeds and removes the
   row, whether the user is soft-deleted or not. *)
C6_HardDeleteFromEitherState ==
  \A u \in DOMAIN users :
    SomeoneAuthenticated =>
      LET r == UserDeleteService_hard_delete(users, products, u) IN
        /\ r.error = ""
        /\ u \notin DOMAIN r.users

\* The request of worker w was answered with success.
Succeeded(w) == inflight[w].pc = "done" /\ inflight[w].error = ""

(* C7 (as claimed): of two soft_delete requests, or two restore requests,
   for the same user, with no successful request of the opposite kind for
   that user served beside them, at most one is answered with success, and
   so at most one of them writes deleted_at. *)
C7_AtMostOneSucceeds ==
  \A w1 \in DOMAIN inflight, w2 \in DOMAIN inflight :
    ( /\ w1 # w2
      /\ inflight[w1].op = inflight[w2].op
      /\ inflight[w1].user_id = inflight[w2].user_id
      /\ ~\E w3 \in DOMAIN inflight :
            /\ inflight[w3].user_id = inflight[w1].user_id
            /\ inflight[w3].op # inflight[w1].op
            /\ Succeeded(w3) ) =>
      ~(Succeeded(w1) /\ Succeeded(w2))

(* C8: an authenticated principal's create with a valid payload is answered 201 and stores one
   product whose supplier is that principal when the principal's role is
   Supplier or Supplier-Merchant; for every other role, Admin included, it
   is answered 403 and the products table is left as it is. *)
C8_OnlySuppliersCreate ==
  \A principal \in DOMAIN users :
    Authenticated(users, principal) =>
      LET r == ProductViewSet_create(users, products, principal, next_pid) IN
        IF users[principal].role \in SUPPLIER_ROLES
        THEN /\ r.status = 201
             /\ DOMAIN r.products = DOMAIN products \cup {next_pid}
             /\ r.products[next_pid].supplier = principal
             /\ \A x \in DOMAIN products : r.products[x] = products[x]
        ELSE /\ r.status = 403
             /\ r.products = products

\* a product stored through create, while an Admin is signed in to be refused
C8_Witness ==
  /\ \E x \in DOMAIN products : users[products[x].supplier].role \in SUPPLIER_ROLES
  /\ \E a \in DOMAIN users : Authenticated(users, a) /\ users[a].role = "admin"

(* C9: for a product the request's lookup finds, update and destroy by an
   authenticated principal succeed when the principal is an Admin or the
   product's own supplier, and are answered 403 with the products table
   unchanged otherwise; no update or destroy changes a product for anyone
   else. *)
C9_OnlyOwnerOrAdminModifies ==
  \A principal \in DOMAIN users, id \in DOMAIN products,
     available_only \in BOOLEAN, value \in BOOLEAN, now \in Times :
    Authenticated(users, principal) =>
      LET u == ProductViewSet_update(users, products, principal, id, available_only, value)
          d == ProductViewSet_destroy(users, products, principal, id, available_only, now)
          found == ~products[id].is_deleted /\ (available_only => products[id].is_available)
          allowed == \/ users[principal].role = "admin"
                     \/ /\ users[principal].role \in SUPPLIER_ROLES
                        /\ products[id].supplier = principal
      IN  /\ (found /\ allowed) => u.status = 200 /\ d.status = 204
          /\ (found /\ ~allowed) =>
               /\ u.status = 403 /\ u.products = products
               /\ d.status = 403 /\ d.products = products
          /\ ~allowed => u.products = products /\ d.products = products

\* a listed product of one supplier, with a second supplier and an Admin signed in
C9_Witness ==
  \E id \in DOMAIN products, b \in DOMAIN users, a \in DOMAIN users :
    /\ ~products[id].is_deleted /\ products[id].is_available
    /\ Authenticated(users, b) /\ users[b].role \in SUPPLIER_ROLES
    /\ products[id].supplier # b
    /\ Authenticated(users, a) /\ users[a].role = "admin"

\* The product view operations return the product, whatever the filter is
\* apart from the availability flag it asks for.
Returned(ps, id, available_only) ==
  /\ id \in ProductViewSet_list(ps, available_only)
  /\ ProductViewSet_retrieve(ps, id, available_only)
  /\ id \in ProductViewSet_search(ps, available_only)

\* No product view operation returns a soft-deleted product.
C10_DeletedNeverReturned ==
  \A id \in DOMAIN products, available_only \in BOOLEAN :
    products[id].is_deleted =>
      /\ id \notin ProductViewSet_list(products, available_only)
      /\ ~ProductViewSet_retrieve(products, id, available_only)
      /\ id \notin ProductViewSet_search(products, available_only)
      /\ \A supplier \in DOMAIN users :
           id \notin ProductViewSet_by_supplier(users, products, supplier, available_only)

\* A step that restores a product leaves it returned by list, retrieve and search.
C10_RestoredReturnedAgain ==
  \A id \in DOMAIN products :
    ( /\ products[id].is_deleted
      /\ id \in DOMAIN products'
      /\ ~products'[id].is_deleted ) =>
      \A available_only \in BOOLEAN : Returned(products', id, available_only)

(* C10: in every reachable state list, retrieve, search and by_supplier
   return no soft-deleted product, whatever the available_only parameter;
   and every step that restores a product leaves it returned by list,
   retrieve and search again. *)
C10_DeletedHiddenUntilRestored ==
  /\ []C10_DeletedNeverReturned
  /\ [][C10_RestoredReturnedAgain]_vars

\* a soft-deleted product is stored
C10_Witness ==
  \E id \in DOMAIN products : products[id].is_deleted /\ ~products[id].is_available

(* C11 (as claimed): restore of a soft-deleted product by an authenticated
   Admin is answered 200 and leaves the product with is_deleted false,
   deleted_at absent and is_available true; by an authenticated principal
   of any other role it is answered 403 and changes nothing. *)
C11_AdminRestoresDeletedProduct ==
  \A principal \in DOMAIN users, id \in DOMAIN products, available_only \in BOOLEAN :
    (Authenticated(users, principal) /\ products[id].is_deleted) =>
      LET r == ProductViewSet_restore(users, products, principal, id, available_only) IN
        IF users[principal].role = "admin"
        THEN /\ r.status = 200
             /\ ProductFlags(r.products[id]) = <<FALSE, FALSE, TRUE>>
        ELSE /\ r.status = 403
             /\ r.products = products

(* C12 (as claimed): no step changes the role of a stored user whose role
   is Admin. *)
C12_AdminRoleImmutable ==
  [][\A u \in DOMAIN users :
       (users[u].role = "admin" /\ u \in DOMAIN users') => users'[u].role = "admin"]_vars

(* ------------- the price set of a product (PriceSpec) ------------------ 
   One product, with the price columns the create and update serializers
   validate; requests carry the default available_only.  A payload is a function from
   the fields it carries to their values. *)
\* largest amount a payload may carry
MaxPrice == 2

Prices == 0..MaxPrice

RetailFields == {"retail_price_b2c", "retail_price_corporate", "retail_price_horeca"}

PriceFields == {"end_user_price", "wholesale_price"} \cup RetailFields

\* every payload over the price fields, complete or not
PricePayloads == UNION {[fields -> Prices] : fields \in SUBSET PriceFields}

\* min(retail_prices)
MinRetail(p) ==
  CHOOSE m \in {p[f] : f \in RetailFields} : \A f \in RetailFields : m <= p[f]

\* ProductCreateSerializer.validate: role test, then the price test
ProductCreateSerializer_validate(role, attrs) ==
  /\ role \in {SUPPLIER, SUPPLIER_MERCHANT}
  /\ ~(attrs["wholesale_price"] > MinRetail(attrs))

\* validate that tests only the amounts the request carries
ProductUpdateSerializer_validate_payload_only(instance, attrs) ==
  \/ ~(RetailFields \cup {"wholesale_price"} \subseteq DOMAIN attrs)
  \/ ~(attrs["wholesale_price"] > MinRetail(attrs))

\* ProductUpdateSerializer.validate: attrs.get(field, instance.field)
ProductUpdateSerializer_validate(instance, attrs) ==
  LET merged == attrs @@ instance IN
    ~(merged["wholesale_price"] > MinRetail(merged))

\* ProductViewSet.create with the payload's price fields
ProductViewSet_create_prices(us, ps, principal, id, attrs) ==
  IF ~Authenticated(us, principal) THEN [status |-> 401, products |-> ps]
  ELSE IF ~MayCreate(us[principal].role) THEN [status |-> 403, products |-> ps]
  ELSE IF DOMAIN attrs # PriceFields THEN [status |-> 400, products |-> ps]
  ELSE IF ~ProductCreateSerializer_validate(us[principal].role, attrs)
       THEN [status |-> 400, products |-> ps]
  ELSE [status |-> 201, products |-> With(ps, id, NewProduct(principal) @@ attrs)]

\* ProductViewSet.update (PUT, partial = FALSE) and partial_update (PATCH)
ProductViewSet_update_prices(us, ps, principal, id, available_only, partial, attrs) ==
  IF ~Authenticated(us, principal) THEN [status |-> 401, products |-> ps]
  ELSE IF ~get_object(ps, id, available_only) THEN [status |-> 404, products |-> ps]
  ELSE IF ~MayModify(us, principal, ps[id]) THEN [status |-> 403, products |-> ps]
  ELSE IF ~partial /\ DOMAIN attrs # PriceFields THEN [status |-> 400, products |-> ps]
  ELSE IF ~ProductUpdateSerializer_validate(ps[id], attrs)
       THEN [status |-> 400, products |-> ps]
  ELSE [status |-> 200, products |-> [ps EXCEPT ![id] = attrs @@ @]]

CreateProductPrices(principal, attrs) ==
  /\ products' = ProductViewSet_create_prices(users, products, principal, next_pid, attrs).products
  /\ next_pid' = IF products' = products THEN next_pid ELSE next_pid + 1
  /\ UNCHANGED <<users, next_id, inflight>>

UpdateProductPrices(principal, id, available_only, partial, attrs) ==
  /\ products' = ProductViewSet_update_prices(users, products, principal, id,
                                              available_only, partial, attrs).products
  /\ UNCHANGED <<users, next_id, next_pid, inflight>>

\* the accounts of PriceSpec: the product's supplier and an Admin
PriceRoles == <<SUPPLIER, ADMIN>>

\* the product PriceSpec follows
PricedIds == {1}

PriceInit ==
  /\ users = [u \in DOMAIN PriceRoles |-> NewUser(PriceRoles[u])]
  /\ next_id = Len(PriceRoles) + 1
  /\ products = <<>>
  /\ next_pid = 1
  /\ inflight = NoRequests

PriceNext ==
  \/ \E principal \in DOMAIN users, attrs \in PricePayloads :
       next_pid \in PricedIds /\ CreateProductPrices(principal, attrs)
  \/ \E principal \in DOMAIN users, id \in DOMAIN products,
        partial \in BOOLEAN, attrs \in PricePayloads :
       UpdateProductPrices(principal, id, TRUE, partial, attrs)

PriceSpec == PriceInit /\ [][PriceNext]_vars

\* the price test of the two serializers, on a complete price set
PricesInOrder(p) ==
  \A f \in RetailFields : p["wholesale_price"] <= p[f]

\* the price columns a request would leave, starting from the stored ones
Resulting(stored, attrs) ==
  [f \in PriceFields |-> IF f \in DOMAIN attrs THEN attrs[f] ELSE stored[f]]

(* C13: every stored product has wholesale_price at most each of its three
   retail prices; a create, a full update or a partial update by a
   principal allowed to make it is accepted exactly when the resulting
   price set has that order (equality included) and then stores exactly
   the resulting prices, and is answered 400 and stores nothing otherwise. *)
C13_WholesaleAtMostRetail ==
  /\ \A id \in DOMAIN products : PricesInOrder(products[id])
  /\ \A principal \in DOMAIN users, attrs \in [PriceFields -> Prices] :
       users[principal].role \in SUPPLIER_ROLES =>
         LET r == ProductViewSet_create_prices(users, products, principal, next_pid, attrs) IN
           IF PricesInOrder(attrs)
           THEN /\ r.status = 201
                /\ \A f \in PriceFields : r.products[next_pid][f] = attrs[f]
           ELSE /\ r.status = 400
                /\ r.products = products
  /\ \A principal \in DOMAIN users, id \in DOMAIN products,
        partial \in BOOLEAN, attrs \in PricePayloads :
       (partial \/ DOMAIN attrs = PriceFields) =>
         LET r == ProductViewSet_update_prices(users, products, principal, id, TRUE, partial, attrs)
             after == Resulting(products[id], attrs)
         IN  IF PricesInOrder(after)
             THEN /\ r.status = 200
                  /\ \A f \in PriceFields : r.products[id][f] = after[f]
             ELSE /\ r.status = 400
                  /\ r.products = products

\* a stored product whose wholesale price equals its lowest retail price,
\* above zero, with another retail price above it
C13_Witness ==
  \E id \in DOMAIN products :
    /\ products[id]["wholesale_price"] = MinRetail(products[id])
    /\ products[id]["wholesale_price"] > 0
    /\ \E f \in RetailFields : products[id][f] > products[id]["wholesale_price"]

(* ---------------- price resolution for a principal (PricingSpec) ------- 
   One call of Product.get_price_for_user or Product.is_wholesale_eligible
   on inputs drawn from the bounded sets; inflight holds the call and the
   value it returned. *)
\* largest quantity of an order line and of wholesale_min_quantity
MaxQuantity == 3

Quantities == 0..MaxQuantity

\* a role value outside UserTypes.CHOICES
UnrecognizedRole == "unrecognized"

PrincipalRoles == Roles \cup {UnrecognizedRole}

AdminPriceFields == PriceFields \cup {"wholesale_min_quantity"}

\* the price columns of a product row
PriceSets ==
  {prices @@ [wholesale_min_quantity |-> q] :
     prices \in [PriceFields -> Prices], q \in Quantities}

\* get_price_for_user where a storage client falls through to the default
get_price_for_user_without_storage(p, is_authenticated, role) ==
  IF ~is_authenticated THEN p["end_user_price"]
  ELSE IF role = ADMIN THEN [f \in AdminPriceFields |-> p[f]]
  ELSE IF role = B2C_VISITOR THEN p["end_user_price"]
  ELSE IF role = CORPORATE THEN p["retail_price_corporate"]
  ELSE IF role = HORECA THEN p["retail_price_horeca"]
  ELSE IF role = SUPPLIER THEN p["wholesale_price"]
  ELSE IF role = SUPPLIER_MERCHANT THEN p["wholesale_price"]
  ELSE p["end_user_price"]

\* Product.get_price_for_user
get_price_for_user(p, is_authenticated, role) ==
  IF ~is_authenticated THEN p["end_user_price"]
  ELSE IF role = ADMIN THEN [f \in AdminPriceFields |-> p[f]]
  ELSE IF role = B2C_VISITOR THEN p["end_user_price"]
  ELSE IF role = CORPORATE THEN p["retail_price_corporate"]
  ELSE IF role = HORECA THEN p["retail_price_horeca"]
  ELSE IF role = SUPPLIER THEN p["wholesale_price"]
  ELSE IF role = SUPPLIER_MERCHANT THEN p["wholesale_price"]
  ELSE IF role = STORAGE_CLIENT THEN p["retail_price_corporate"]
  ELSE p["end_user_price"]

\* is_wholesale_eligible with a strict comparison
is_wholesale_eligible_strict(role, quantity, wholesale_min_quantity) ==
  IF role \in {SUPPLIER, SUPPLIER_MERCHANT, CORPORATE}
  THEN quantity > wholesale_min_quantity
  ELSE FALSE

\* Product.is_wholesale_eligible
is_wholesale_eligible(role, quantity, wholesale_min_quantity) ==
  IF role \in {SUPPLIER, SUPPLIER_MERCHANT, CORPORATE}
  THEN quantity >= wholesale_min_quantity
  ELSE FALSE

GetPriceForUser(p, is_authenticated, role) ==
  /\ inflight = NoRequests
  /\ inflight' = <<[op |-> "get_price_for_user", product |-> p,
                    is_authenticated |-> is_authenticated, role |-> role,
                    result |-> get_price_for_user(p, is_authenticated, role)]>>
  /\ UNCHANGED <<users, next_id, products, next_pid>>

IsWholesaleEligible(role, quantity, wholesale_min_quantity) ==
  /\ inflight = NoRequests
  /\ inflight' = <<[op |-> "is_wholesale_eligible", role |-> role, quantity |-> quantity,
                    wholesale_min_quantity |-> wholesale_min_quantity,
                    result |-> is_wholesale_eligible(role, quantity, wholesale_min_quantity)]>>
  /\ UNCHANGED <<users, next_id, products, next_pid>>

\* one call per behaviour: nothing is called once a call has returned
PricingNext ==
  \/ /\ inflight = NoRequests
     /\ \E p \in PriceSets, is_authenticated \in BOOLEAN, role \in PrincipalRoles :
          GetPriceForUser(p, is_authenticated, role)
  \/ /\ inflight = NoRequests
     /\ \E role \in PrincipalRoles, quantity \in Quantities, wholesale_min_quantity \in Quantities :
          IsWholesaleEligible(role, quantity, wholesale_min_quantity)

PricingSpec == Init /\ [][PricingNext]_vars

\* the calls of one operation that have returned
Calls(op) == {i \in DOMAIN inflight : inflight[i].op = op}

\* the price column the table of roles selects for a non-Admin principal
SelectedField(is_authenticated, role) ==
  IF ~is_authenticated THEN "end_user_price"
  ELSE CASE role = "b2c_visitor" -> "end_user_price"
         [] role = "corporate" -> "retail_price_corporate"
         [] role = "storage_client" -> "retail_price_corporate"
         [] role = "horeca" -> "retail_price_horeca"
         [] role = "supplier" -> "wholesale_price"
         [] role = "supplier_merchant" -> "wholesale_price"
         [] OTHER -> "end_user_price"

(* C14: every call of get_price_for_user returns a value: for an
   authenticated Admin the five price fields and wholesale_min_quantity of
   the product, unchanged; for every other principal exactly one amount,
   the product's end_user_price for a B2C visitor, an unauthenticated
   principal and an unrecognized role, retail_price_corporate for Corporate
   and Storage-Client, retail_price_horeca for HoReCa, and wholesale_price
   for Supplier and Supplier-Merchant. *)
C14_PriceByRole ==
  \A i \in Calls("get_price_for_user") :
    LET c == inflight[i] IN
      IF c.is_authenticated /\ c.role = "admin"
      THEN /\ DOMAIN c.result = AdminPriceFields
           /\ \A f \in AdminPriceFields : c.result[f] = c.product[f]
      ELSE /\ c.result \in Prices
           /\ c.result = c.product[SelectedField(c.is_authenticated, c.role)]

\* a storage client was quoted a corporate price that differs from every
\* other price of the product
C14_Witness ==
  \E i \in Calls("get_price_for_user") :
    LET c == inflight[i] IN
      /\ c.is_authenticated /\ c.role = "storage_client"
      /\ c.result = c.product["retail_price_corporate"]
      /\ \A f \in PriceFields \ {"retail_price_corporate"} : c.product[f] # c.result

(* C15: every call of is_wholesale_eligible returns TRUE exactly when the
   role is Supplier, Supplier-Merchant or Corporate and the quantity is at
   least wholesale_min_quantity; for every other role, HoReCa included, it
   returns FALSE whatever the quantities. *)
C15_WholesaleEligibility ==
  \A i \in Calls("is_wholesale_eligible") :
    LET c == inflight[i] IN
      /\ c.result \in BOOLEAN
      /\ c.result <=> ( /\ c.role \in {"supplier", "supplier_merchant", "corporate"}
                        /\ c.quantity >= c.wholesale_min_quantity )
      /\ c.role = "horeca" => ~c.result

\* a corporate order of exactly the minimum quantity, found eligible
C15_Witness ==
  \E i \in Calls("is_wholesale_eligible") :
    LET c == inflight[i] IN
      /\ c.role = "corporate"
      /\ c.quantity = c.wholesale_min_quantity
      /\ c.quantity > 0
      /\ c.result

(* ------------- role-required profile fields (ProfileSpec) -------------- 
   Users with the two profile columns the role rules read.  A payload is a
   function from the fields it carries to their values; the empty string
   stands for both None and '' (the code tests truthiness only). *)
Names == {"", "Acme"}

ProfileFields == {"role", "company_name", "business_type"}

\* every payload over the profile fields whose role, if any, is in roles
ProfilePayloadsOf(roles) ==
  {attrs \in UNION {[fields -> roles \cup Names] : fields \in SUBSET ProfileFields} :
     \A f \in DOMAIN attrs : IF f = "role" THEN attrs[f] \in roles ELSE attrs[f] \in Names}

ProfilePayloads == ProfilePayloadsOf(Roles)

\* the roles the requests of ProfileSpec carry: one with no required
\* field, the one that requires company_name, one that requires business_type
ProfileRoles == {ADMIN, CORPORATE, SUPPLIER}

RequestPayloads == ProfilePayloadsOf(ProfileRoles)

\* attrs.get(field, default)
Get(attrs, field, default) == IF field \in DOMAIN attrs THEN attrs[field] ELSE default

\* validate that asks no business_type of a supplier-merchant
UserRegisterSerializer_validate_two_business_roles(attrs) ==
  LET role == Get(attrs, "role", B2C_VISITOR) IN
    /\ ~(role = CORPORATE /\ Get(attrs, "company_name", "") = "")
    /\ ~(role \in {HORECA, SUPPLIER} /\ Get(attrs, "business_type", "") = "")

\* UserRegisterSerializer.validate
UserRegisterSerializer_validate(attrs) ==
  LET role == Get(attrs, "role", B2C_VISITOR) IN
    /\ ~(role = CORPORATE /\ Get(attrs, "company_name", "") = "")
    /\ ~(role \in {HORECA, SUPPLIER, SUPPLIER_MERCHANT} /\ Get(attrs, "business_type", "") = "")

\* UserManager.create_user with the profile columns
create_user(attrs) ==
  NewUser(Get(attrs, "role", B2C_VISITOR)) @@
    [company_name |-> Get(attrs, "company_name", ""),
     business_type |-> Get(attrs, "business_type", "")]

\* register: serializer validation, then the registration service
register(us, id, attrs) ==
  IF ~UserRegisterSerializer_validate(attrs) THEN [status |-> 400, users |-> us]
  ELSE [status |-> 201, users |-> With(us, id, create_user(attrs))]

\* UserUpdateSerializer.validate; has_instance is FALSE when the serializer
\* was built from the payload alone, and self.instance is then None
UserUpdateSerializer_validate(has_instance, instance, attrs) ==
  IF "role" \notin DOMAIN attrs THEN "valid"
  ELSE IF attrs["role"] = CORPORATE /\ Get(attrs, "company_name", "") = ""
       THEN IF ~has_instance THEN "AttributeError"
            ELSE IF instance.company_name = "" THEN "invalid" ELSE "valid"
  ELSE IF attrs["role"] \in {HORECA, SUPPLIER, SUPPLIER_MERCHANT}
          /\ Get(attrs, "business_type", "") = ""
       THEN IF ~has_instance THEN "AttributeError"
            ELSE IF instance.business_type = "" THEN "invalid" ELSE "valid"
  ELSE "valid"

\* setattr(user, field, value) for each field of the payload, then save()
SetFields(u, attrs) == attrs @@ u

\* UserViewSet.partial_update: get_object, serializer on the instance, save
partial_update(us, user_id, attrs) ==
  IF ~get_by_id(us, user_id) THEN [status |-> 404, users |-> us]
  ELSE IF UserUpdateSerializer_validate(TRUE, us[user_id], attrs) # "valid"
       THEN [status |-> 400, users |-> us]
  ELSE [status |-> 200, users |-> [us EXCEPT ![user_id] = SetFields(@, attrs)]]

\* UserViewSet.update_user: serializer on the payload alone, then the service
update_user(us, user_id, attrs) ==
  LET v == UserUpdateSerializer_validate(FALSE, <<>>, attrs) IN
    IF v = "AttributeError" THEN [status |-> 500, users |-> us]
    ELSE IF v = "invalid" THEN [status |-> 400, users |-> us]
    ELSE IF ~get_by_id(us, user_id) THEN [status |-> 404, users |-> us]
    ELSE [status |-> 200, users |-> [us EXCEPT ![user_id] = SetFields(@, attrs)]]

RegisterProfile(attrs) ==
  /\ next_id <= MaxUsers
  /\ users' = register(users, next_id, attrs).users
  /\ next_id' = IF users' = users THEN next_id ELSE next_id + 1
  /\ UNCHANGED <<products, next_pid, inflight>>

PartialUpdateProfile(user_id, attrs) ==
  /\ SomeoneAuthenticated
  /\ users' = partial_update(users, user_id, attrs).users
  /\ UNCHANGED <<next_id, products, next_pid, inflight>>

UpdateUserProfile(user_id, attrs) ==
  /\ SomeoneAuthenticated
  /\ users' = update_user(users, user_id, attrs).users
  /\ UNCHANGED <<next_id, products, next_pid, inflight>>

ProfileNext ==
  \/ \E attrs \in RequestPayloads : RegisterProfile(attrs)
  \/ \E user_id \in UserIdParams, attrs \in RequestPayloads : PartialUpdateProfile(user_id, attrs)
  \/ \E user_id \in UserIdParams, attrs \in RequestPayloads : UpdateUserProfile(user_id, attrs)

ProfileSpec == Init /\ [][ProfileNext]_vars

\* a field the payload omits or carries empty
Lacks(attrs, field) == field \notin DOMAIN attrs \/ attrs[field] = ""

(* C16: a registration is refused with 400 and stores no user when its role
   is Corporate and company_name is missing or empty, or its role is
   HoReCa, Supplier or Supplier-Merchant and business_type is missing or
   empty; every other registration, with role Admin, B2C visitor,
   Storage-Client or no role (stored as B2C visitor), is accepted with or
   without the two fields and stores one user. *)
C16_RegistrationRoleFields ==
  \A attrs \in ProfilePayloads :
    LET r == register(users, next_id, attrs)
        role == IF "role" \in DOMAIN attrs THEN attrs["role"] ELSE "b2c_visitor"
        refused == \/ role = "corporate" /\ Lacks(attrs, "company_name")
                   \/ /\ role \in {"horeca", "supplier", "supplier_merchant"}
                      /\ Lacks(attrs, "business_type")
    IN  IF refused
        THEN r.status = 400 /\ r.users = users
        ELSE /\ r.status = 201
             /\ DOMAIN r.users = DOMAIN users \cup {next_id}
             /\ r.users[next_id].role = role
             /\ \A u \in DOMAIN users : r.users[u] = users[u]

\* a Corporate user registered with a company name beside a user registered
\* with no role-required field
C16_Witness ==
  /\ \E u \in DOMAIN users : users[u].role = "corporate" /\ users[u].company_name = "Acme"
  /\ \E u \in DOMAIN users :
       users[u].role = "admin" /\ users[u].company_name = "" /\ users[u].business_type = ""

(* C17 (as claimed): every stored Corporate user has a non-empty
   company_name and every stored HoReCa, Supplier or Supplier-Merchant user
   has a non-empty business_type, after any registrations and updates. *)
C17_StoredUsersKeepRequiredFields ==
  \A u \in DOMAIN users :
    /\ users[u].role = "corporate" => users[u].company_name # ""
    /\ users[u].role \in {"horeca", "supplier", "supplier_merchant"} =>
         users[u].business_type # ""

(* C18 (as claimed): update_user, deactivate, soft_delete, hard_delete and
   restore, addressed with a user_id that is malformed or matches no stored
   user, are each answered with a 'not found' error and status 404, and
   leave every stored user as it is. *)
C18_UnknownUserIsNotFound ==
  \A user_id \in UserIdParams, role \in RegisterRoles, now \in Times :
    (SomeoneAuthenticated /\ (user_id = Malformed \/ user_id \notin DOMAIN users)) =>
      LET answers == {UserUpdateService_update(users, user_id, role),
                      UserActivationService_deactivate(users, user_id),
                      UserDeleteService_soft_delete(users, user_id, now),
                      [error |-> UserDeleteService_hard_delete(users, products, user_id).error,
                       users |-> UserDeleteService_hard_delete(users, products, user_id).users],
                      UserDeleteService_restore(users, user_id)}
      IN  \A r \in answers :
            /\ r.error \in {"User not found", "User not found."}
            /\ ErrorStatus(r.error) = 404
            /\ r.users = users

(* -------------------- what the user endpoints answer -------------------- *)
\* MyTokenObtainPairSerializer.validate: the keys of the login answer
MyTokenObtainPairSerializer_validate ==
  {"refresh", "access", "id", "user_id", "role", "role_display", "is_verified"}

\* login_view: the keys of the answer to a login as stored user u
login_view(us, u) ==
  IF Authenticated(us, u)
  THEN [status |-> 200, data |-> MyTokenObtainPairSerializer_validate]
  ELSE [status |-> 401, data |-> {"detail"}]

\* UserListSerializer.Meta.fields plus role_display
UserListSerializer ==
  {"user_id", "email", "username", "first_name", "last_name", "role", "role_display",
   "company_name", "business_type", "phone_number", "address", "created_at",
   "is_active", "is_verified", "is_deleted", "deleted_at"}

\* UserUpdateSerializer.Meta.fields
UserUpdateSerializer ==
  {"email", "first_name", "last_name", "role", "company_name", "business_type",
   "phone_number", "address"}

\* UserViewSet.list: one entry per user of the default manager
UserViewSet_list(us) == [u \in UserManager_get_queryset(us) |-> UserListSerializer]

(* C19 (as claimed): no answer of the login, user list, partial_update or
   update_user endpoints carries the key id. *)
C19_InternalIdNeverExposed ==
  /\ \A u \in DOMAIN users : "id" \notin login_view(users, u).data
  /\ \A u \in DOMAIN UserViewSet_list(users) : "id" \notin UserViewSet_list(users)[u]
  /\ "id" \notin UserUpdateSerializer

(* C20 (as claimed): every entry of the user list answer carries username,
   user_id and email and none of id, is_active, is_staff, is_superuser. *)
C20_UserListEntryFields ==
  SomeoneAuthenticated =>
    \A u \in DOMAIN UserViewSet_list(users) :
      /\ {"username", "user_id", "email"} \subseteq UserViewSet_list(users)[u]
      /\ UserViewSet_list(users)[u] \cap {"id", "is_active", "is_staff", "is_superuser"} = {}

(* ------------------- registration under a username --------------------- *)
\* The number of registrations the username specification follows.
MaxAccounts == 3

AccountIds == 1..MaxAccounts

Usernames == {"ann", "bob", "eve"}

\* UserRepository.exists_by_username: User.objects, the default manager
exists_by_username(us, username) ==
  \E u \in UserManager_get_queryset(us) : us[u].username = username

\* The UNIQUE constraint of the username column, which the database holds
\* over every row of the table, soft-deleted ones included.
UniqueUsernameViolated(us, username) ==
  \E u \in all_with_deleted(us) : us[u].username = username

\* UserViewSet.create: the serializer's UniqueValidator on username (a
\* lookup through the default manager), the registration service, then the
\* INSERT. An IntegrityError of the INSERT is caught nowhere.
UserViewSet_create(us, id, username) ==
  IF exists_by_username(us, username)
    THEN [status |-> 400, body |-> {"username"}, users |-> us]
  ELSE IF exists_by_username(us, username)
    THEN [status |-> 400, body |-> {"error"}, users |-> us]
  ELSE IF UniqueUsernameViolated(us, username)
    THEN [status |-> 500, body |-> {}, users |-> us]
  ELSE [status |-> 201, body |-> {"message"},
        users |-> With(us, id, NewUser(B2C_VISITOR) @@ [username |-> username])]

\* POST /users/ with a username
RegisterUsername(username) ==
  /\ next_id <= MaxAccounts
  /\ users' = UserViewSet_create(users, next_id, username).users
  /\ next_id' = IF users' = users THEN next_id ELSE next_id + 1
  /\ UNCHANGED <<products, next_pid, inflight>>

NameNext ==
  \/ \E username \in Usernames : RegisterUsername(username)
  \/ \E user_id \in AccountIds : DeactivateUser(user_id)
  \/ \E user_id \in AccountIds, now \in Times : SoftDeleteUser(user_id, now)
  \/ \E user_id \in AccountIds : HardDeleteUser(user_id)
  \/ \E user_id \in AccountIds : RestoreUser(user_id)

NameSpec == Init /\ [][NameNext]_vars

(* C21: registering with a username that already belongs to a stored user
   is answered with 400 and a body naming the username, creates no user and
   leaves the stored users unchanged. *)
C21_DuplicateUsernameIs400 ==
  \A username \in Usernames :
    (\E u \in DOMAIN users : users[u].username = username) =>
      LET r == UserViewSet_create(users, next_id, username) IN
        /\ r.status = 400
        /\ "username" \in r.body
        /\ r.users = users

(* ----------------------------- password reset -------------------------- *)
\* The OTP values random.randint draws from, the latest minute at which a
\* forgot-password request arrives, and the latest minute of any request.
MaxOtp == 2

MaxRequestMinute == 1

MaxMinute == 12

Otps == 1..MaxOtp

RequestMinutes == 0..MaxRequestMinute

Minutes == 0..MaxMinute

\* timezone.timedelta(minutes=10)
OtpLifetime == 10

Passwords == {"old", "new"}

NoEmail == "none"

UnknownEmail == "nobody@x"

Emails == {"ann@x", UnknownEmail}

\* UserRepository.get_by_email: User.objects.get(email=email); the column is
\* unique, so the lookup yields one row or none
get_by_email(us, email) ==
  {u \in UserManager_get_queryset(us) : us[u].email = email}

\* UserRepository.get_by_username
get_by_username(us, username) ==
  {u \in UserManager_get_queryset(us) : us[u].username = username}

\* PasswordResetRequestService.request_reset; otp is the value drawn by
\* random.randint, now the reading of timezone.now(). The row is saved
\* before the OTP is handed to the email sender, whose transport is not
\* part of the model.
request_reset(us, email, otp, now) ==
  IF get_by_email(us, email) = {} THEN [ok |-> FALSE, users |-> us]
  ELSE LET u == CHOOSE x \in get_by_email(us, email) : TRUE IN
    [ok |-> TRUE,
     users |-> [us EXCEPT ![u].reset_otp = otp,
                          ![u].reset_otp_expiry = now + OtpLifetime]]

\* OTPVerificationService.verify_otp that never looks at the expiry
verify_otp_ignoring_expiry(us, email, otp, now) ==
  /\ get_by_email(us, email) # {}
  /\ LET user == us[CHOOSE x \in get_by_email(us, email) : TRUE] IN
       /\ user.reset_otp # NULL
       /\ user.reset_otp_expiry # NULL
       /\ user.reset_otp = otp

\* OTPVerificationService.verify_otp
verify_otp(us, email, otp, now) ==
  /\ get_by_email(us, email) # {}
  /\ LET user == us[CHOOSE x \in get_by_email(us, email) : TRUE] IN
       /\ user.reset_otp # NULL
       /\ user.reset_otp_expiry # NULL
       /\ user.reset_otp = otp
       /\ ~(now > user.reset_otp_expiry)

\* PasswordChangeService.change_password that never calls set_password
change_password_keeping_password(us, email, otp, new_password, now) ==
  IF ~verify_otp(us, email, otp, now) THEN [ok |-> FALSE, users |-> us]
  ELSE LET u == CHOOSE x \in get_by_email(us, email) : TRUE IN
    [ok |-> TRUE,
     users |-> [us EXCEPT ![u].reset_otp = NULL, ![u].reset_otp_expiry = NULL]]

\* PasswordChangeService.change_password that leaves the OTP columns alone
change_password_keeping_otp(us, email, otp, new_password, now) ==
  IF ~verify_otp(us, email, otp, now) THEN [ok |-> FALSE, users |-> us]
  ELSE LET u == CHOOSE x \in get_by_email(us, email) : TRUE IN
    [ok |-> TRUE, users |-> [us EXCEPT ![u].password = new_password]]

\* PasswordChangeService.change_password
change_password(us, email, otp, new_password, now) ==
  IF ~verify_otp(us, email, otp, now) THEN [ok |-> FALSE, users |-> us]
  ELSE LET u == CHOOSE x \in get_by_email(us, email) : TRUE IN
    [ok |-> TRUE,
     users |-> [us EXCEPT ![u].password = new_password,
                          ![u].reset_otp = NULL,
                          ![u].reset_otp_expiry = NULL]]

\* UserAuthenticationService.authenticate: TRUE when a user is returned
UserAuthenticationService_authenticate(us, username, password) ==
  /\ get_by_username(us, username) # {}
  /\ LET user == us[CHOOSE x \in get_by_username(us, username) : TRUE] IN
       /\ user.password = password
       /\ user.is_active

\* login_view: the status of a login with a username and a password
login_status(us, username, password) ==
  IF UserAuthenticationService_authenticate(us, username, password) THEN 200 ELSE 401

\* PasswordResetViewSet.forgot_password
ForgotPassword(email, otp, now) ==
  /\ users' = request_reset(users, email, otp, now).users
  /\ UNCHANGED <<next_id, products, next_pid, inflight>>

\* PasswordResetViewSet.verify_otp: the call and its answer
VerifyOtp(email, otp, now) ==
  /\ inflight' = <<[op |-> "verify_otp", email |-> email, otp |-> otp, now |-> now,
                    status |-> IF verify_otp(users, email, otp, now) THEN 200 ELSE 400]>>
  /\ UNCHANGED <<users, next_id, products, next_pid>>

\* PasswordResetViewSet.reset_password
ResetPassword(email, otp, new_password, now) ==
  /\ users' = change_password(users, email, otp, new_password, now).users
  /\ UNCHANGED <<next_id, products, next_pid, inflight>>

\* The account whose password is reset, and an administrator without an
\* email address who stays signed in.
ResetAccounts == {1}

ResetInit ==
  /\ users = <<NewUser(B2C_VISITOR) @@
                 [username |-> "ann", email |-> "ann@x", password |-> "old",
                  reset_otp |-> NULL, reset_otp_expiry |-> NULL],
               NewUser(ADMIN) @@
                 [username |-> "root", email |-> NoEmail, password |-> "old",
                  reset_otp |-> NULL, reset_otp_expiry |-> NULL]>>
  /\ next_id = 3
  /\ products = <<>>
  /\ next_pid = 1
  /\ inflight = NoRequests

ResetNext ==
  \/ /\ inflight = NoRequests
     /\ \E email \in Emails, otp \in Otps, now \in RequestMinutes :
          ForgotPassword(email, otp, now)
  \/ /\ inflight = NoRequests
     /\ \E email \in Emails, otp \in Otps, now \in Minutes : VerifyOtp(email, otp, now)
  \/ /\ inflight = NoRequests
     /\ \E email \in Emails, otp \in Otps, new_password \in Passwords, now \in Minutes :
          ResetPassword(email, otp, new_password, now)
  \/ /\ inflight = NoRequests
     /\ \E user_id \in ResetAccounts : DeactivateUser(user_id)
  \/ /\ inflight = NoRequests
     /\ \E user_id \in ResetAccounts, now \in Times : SoftDeleteUser(user_id, now)
  \/ /\ inflight = NoRequests
     /\ \E user_id \in ResetAccounts : RestoreUser(user_id)

ResetSpec == ResetInit /\ [][ResetNext]_vars

\* The reset flow for stored user u: forgot-password at minute t0 drawing
\* otp, verify-otp and reset-password at minute t, then a login.
FlowSucceeds(u, otp, t0, t, new_password) ==
  LET email == users[u].email
      r1 == request_reset(users, email, otp, t0)
      r2 == change_password(r1.users, email, otp, new_password, t) IN
    /\ r1.users[u].reset_otp # NULL
    /\ verify_otp(r1.users, email, otp, t)
    /\ r2.ok
    /\ login_status(r2.users, users[u].username, new_password) = 200

(* C22 as stated: for any registered user with an email, after
   forgot-password an OTP is stored, verify-otp with it before expiry
   succeeds, reset-password with it and a new password succeeds, and a login
   with the username and the new password succeeds. *)
C22_ResetFlowForAnyUser ==
  \A u \in DOMAIN users, otp \in Otps, t0 \in RequestMinutes, t \in Minutes,
     new_password \in Passwords :
    (users[u].email # NoEmail /\ t <= t0 + 10) =>
      FlowSucceeds(u, otp, t0, t, new_password)

(* C22, amended: for any registered user with an email who is neither
   soft-deleted nor deactivated, after forgot-password a non-empty OTP is
   stored on the user, verify-otp with that OTP not later than 10 minutes
   after the request succeeds, reset-password with that OTP and a new
   password succeeds, and a login with the username and the new password
   then succeeds. *)
C22_ResetFlowForActiveUser ==
  \A u \in DOMAIN users, otp \in Otps, t0 \in RequestMinutes, t \in Minutes,
     new_password \in Passwords :
    (users[u].email # NoEmail /\ ~users[u].is_deleted /\ users[u].is_active
       /\ t <= t0 + 10) =>
      FlowSucceeds(u, otp, t0, t, new_password)

\* An active user whose password was changed through the flow.
C22_Witness ==
  \E u \in DOMAIN users :
    /\ users[u].email # NoEmail /\ ~users[u].is_deleted /\ users[u].is_active
    /\ users[u].password = "new" /\ users[u].reset_otp = NULL
    /\ login_status(users, users[u].username, "new") = 200

\* The password and OTP columns of the user rows.
Credentials(us) ==
  [u \in DOMAIN us |-> <<us[u].password, us[u].reset_otp, us[u].reset_otp_expiry>>]

(* C25: an OTP serves at most one successful password change. After
   change_password succeeds with an OTP, reset_otp and reset_otp_expiry of
   the user are cleared and every later verify_otp or change_password with
   that OTP fails, as long as no forgot-password request has stored a new
   one; a failed change_password leaves the password, reset_otp and
   reset_otp_expiry unchanged. *)
C25_OtpUsedAtMostOnce ==
  /\ \A email \in Emails, otp \in Otps, new_password \in Passwords, now \in Minutes :
       LET r == change_password(users, email, otp, new_password, now) IN
         IF r.ok
         THEN /\ \A u \in get_by_email(users, email) :
                   /\ r.users[u].reset_otp = NULL
                   /\ r.users[u].reset_otp_expiry = NULL
              /\ \A later \in Minutes, password \in Passwords :
                   /\ ~verify_otp(r.users, email, otp, later)
                   /\ ~change_password(r.users, email, otp, password, later).ok
         ELSE Credentials(r.users) = Credentials(users)
  /\ \A u \in DOMAIN users :
       users[u].reset_otp = NULL =>
         \A otp \in Otps, now \in Minutes, password \in Passwords :
           /\ ~verify_otp(users, users[u].email, otp, now)
           /\ ~change_password(users, users[u].email, otp, password, now).ok

\* A password changed through the flow, the OTP cleared by it.
C25_Witness ==
  \E u \in DOMAIN users :
    /\ users[u].password = "new"
    /\ users[u].reset_otp = NULL
    /\ users[u].reset_otp_expiry = NULL
    /\ ~users[u].is_deleted

(* C26: verify_otp(email, otp) answers true exactly when a non-deleted user
   with that email exists, the user holds a stored OTP and expiry, otp is the
   stored (most recently issued) OTP and the current time is not after the
   expiry, which a forgot-password request sets 10 minutes after its own
   time; a code that a later forgot-password request has replaced by another
   one is no longer accepted; and a verify_otp request changes no user. *)
C26_VerifyOtpAcceptsStoredCode ==
  [][/\ inflight' # inflight =>
          LET c == inflight'[1] IN
            /\ users' = users
            /\ (c.status = 200) <=>
                 \E u \in DOMAIN users :
                   /\ ~users[u].is_deleted
                   /\ users[u].email = c.email
                   /\ users[u].reset_otp # NULL
                   /\ users[u].reset_otp_expiry # NULL
                   /\ c.otp = users[u].reset_otp
                   /\ c.now <= users[u].reset_otp_expiry
     /\ \A email \in Emails, otp \in Otps, t0 \in RequestMinutes, now \in Minutes :
          LET r == request_reset(users, email, otp, t0) IN
            r.ok => (verify_otp(r.users, email, otp, now) <=> now <= t0 + 10)
     /\ \A u \in DOMAIN users \cap DOMAIN users' :
          (users[u].reset_otp # NULL /\ users'[u].reset_otp # NULL
             /\ users'[u].reset_otp # users[u].reset_otp) =>
            \A now \in Minutes : ~verify_otp(users', users[u].email, users[u].reset_otp, now)
    ]_vars

\* A verify-otp request answered with 200 in the last minute of the code.
C26_Witness ==
  /\ inflight # NoRequests
  /\ inflight[1].op = "verify_otp"
  /\ inflight[1].status = 200
  /\ \E u \in DOMAIN users :
       /\ users[u].email = inflight[1].email
       /\ inflight[1].now = users[u].reset_otp_expiry

(* C23: in every reachable state the supplier of every stored product is a
   stored user whose role is Supplier or SupplierMerchant, also after that
   user's record was updated following the creation of the product. *)
C23_OwnerHasSupplierRole ==
  \A x \in DOMAIN products :
    /\ products[x].supplier \in DOMAIN users
    /\ users[products[x].supplier].role \in {"supplier", "supplier_merchant"}

(* ---- full-record saves beside a soft delete (StaleSpec) ----------------
   deactivate, update_user and forgot-password read the row, assign to the
   instance in memory and call user.save() without update_fields, which
   writes every column of the instance. No transaction or row lock spans
   the read and the save, so they are separate steps. The worker's record
   keeps the instance it holds between the two. *)
Holding(op, user_id, row) ==
  [op |-> op, user_id |-> user_id, pc |-> "loaded", error |-> "", row |-> row]

\* UserActivationService.deactivate up to user.save()
LoadForDeactivate(w, user_id) ==
  /\ w \notin DOMAIN inflight
  /\ SomeoneAuthenticated
  /\ inflight' = With(inflight, w,
       IF ~get_by_id(users, user_id) THEN Answered("deactivate", user_id, "User not found.")
       ELSE Holding("deactivate", user_id, [users[user_id] EXCEPT !.is_active = FALSE]))
  /\ UNCHANGED <<users, next_id, products, next_pid>>

\* UserUpdateService.update with a role in the payload, up to user.save()
LoadForUpdate(w, user_id, role) ==
  /\ w \notin DOMAIN inflight
  /\ SomeoneAuthenticated
  /\ inflight' = With(inflight, w,
       IF ~get_by_id(users, user_id) THEN Answered("update_user", user_id, "User not found.")
       ELSE Holding("update_user", user_id, [users[user_id] EXCEPT !.role = role]))
  /\ UNCHANGED <<users, next_id, products, next_pid>>

\* PasswordResetRequestService.request_reset up to user.save()
LoadForReset(w, email, otp, now) ==
  /\ w \notin DOMAIN inflight
  /\ inflight' = With(inflight, w,
       IF get_by_email(users, email) = {} THEN Answered("forgot_password", NULL, "")
       ELSE LET u == CHOOSE x \in get_by_email(users, email) : TRUE IN
         Holding("forgot_password", u,
                 [users[u] EXCEPT !.reset_otp = otp, !.reset_otp_expiry = now + OtpLifetime]))
  /\ UNCHANGED <<users, next_id, products, next_pid>>

\* user.save(): every column of the instance is written to the row
SaveFullRecord(w) ==
  /\ w \in DOMAIN inflight
  /\ inflight[w].pc = "loaded"
  /\ inflight[w].op \in {"deactivate", "update_user", "forgot_password"}
  /\ users' = [users EXCEPT ![inflight[w].user_id] = inflight[w].row]
  /\ inflight' = [inflight EXCEPT ![w].pc = "done"]
  /\ UNCHANGED <<next_id, products, next_pid>>

StaleNext ==
  \/ \E w \in Workers, user_id \in ResetAccounts : LoadForSoftDelete(w, user_id)
  \/ \E w \in Workers, now \in Times : SaveSoftDelete(w, now)
  \/ \E w \in Workers, user_id \in ResetAccounts : LoadForRestore(w, user_id)
  \/ \E w \in Workers : SaveRestore(w)
  \/ \E w \in Workers, user_id \in ResetAccounts : LoadForDeactivate(w, user_id)
  \/ \E w \in Workers, user_id \in ResetAccounts : LoadForUpdate(w, user_id, SUPPLIER)
  \/ \E w \in Workers, otp \in Otps : LoadForReset(w, "ann@x", otp, 0)
  \/ \E w \in Workers : SaveFullRecord(w)

StaleSpec == ResetInit /\ [][StaleNext]_vars

(* C24: once a soft delete of a user has succeeded, the user stays
   soft-deleted until a restore (or a hard delete removes the row): no
   deactivate, update_user or forgot-password request that loaded the row
   before the soft delete and saves it afterwards makes is_deleted false
   again. *)
C24_DeletionIsNotUndone ==
  [][\A u \in DOMAIN users \cap DOMAIN users' :
       (users[u].is_deleted /\ ~users'[u].is_deleted) =>
         \E w \in DOMAIN inflight :
           /\ inflight[w].op = "restore"
           /\ inflight[w].user_id = u
           /\ inflight[w].pc = "loaded"
           /\ inflight'[w].pc = "done"
    ]_vars

\* Worker w completes the restore of user u in this step.
RestoreCompletes(w, u) ==
  /\ inflight[w].op = "restore"
  /\ inflight[w].user_id = u
  /\ inflight[w].pc = "loaded"
  /\ inflight'[w].pc = "done"

(* C27: a soft-deleted or deactivated user cannot log in with the correct
   username and password, and the login keeps failing until a restore;
   after the restore the login with the unchanged password succeeds. *)
C27_NoLoginUntilRestore ==
  [][\A u \in DOMAIN users \cap DOMAIN users' :
       /\ (users[u].is_deleted \/ ~users[u].is_active) =>
            login_status(users, users[u].username, users[u].password) = 401
       /\ ( /\ users[u].is_deleted \/ ~users[u].is_active
            /\ login_status(users', users[u].username, users[u].password) = 200 ) =>
            \E w \in DOMAIN inflight : RestoreCompletes(w, u)
       /\ (\E w \in DOMAIN inflight : RestoreCompletes(w, u)) =>
            login_status(users', users[u].username, users[u].password) = 200
    ]_vars

(* C28: the authenticated owner of a product that is not soft-deleted can
   always update or soft-delete it, whatever its is_available value: the
   request is found and allowed (200 for update, 204 for destroy), never
   answered with NotFound. *)
C28_OwnerAlwaysReachesProduct ==
  \A id \in DOMAIN products :
    LET owner == products[id].supplier IN
      ( /\ ~products[id].is_deleted
        /\ owner \in DOMAIN users
        /\ Authenticated(users, owner)
        /\ users[owner].role \in {"supplier", "supplier_merchant"} ) =>
        \A available_only \in BOOLEAN :
          /\ \A is_available \in BOOLEAN :
               ProductViewSet_update(users, products, owner, id,
                                     available_only, is_available).status = 200
          /\ \A now \in Times :
               ProductViewSet_destroy(users, products, owner, id,
                                      available_only, now).status = 204

(* ----------------------- the price filter of the lists ------------------ *)
\* A min_price or max_price query parameter that is absent (or empty).
NoBound == -1

PriceBounds == Prices \cup {NoBound}

\* The price columns of a product row, for the filter.
FilteredProducts ==
  {prices @@ [wholesale_min_quantity |-> 0] : prices \in [PriceFields -> Prices]}

\* request.user: the anonymous user, or an authenticated user with a role
FilterPrincipals ==
  {[is_authenticated |-> FALSE, role |-> UnrecognizedRole]} \cup
  {[is_authenticated |-> TRUE, role |-> role] : role \in PrincipalRoles}

\* The price_field chosen by ProductViewSet.get_queryset and, in the same
\* words, by ProductViewSet.search
price_field(is_authenticated, role) ==
  IF is_authenticated
  THEN IF role = B2C_VISITOR THEN "end_user_price"
       ELSE IF role = CORPORATE THEN "retail_price_corporate"
       ELSE IF role = HORECA THEN "retail_price_horeca"
       ELSE IF role \in {SUPPLIER, SUPPLIER_MERCHANT} THEN "wholesale_price"
       ELSE "end_user_price"
  ELSE "end_user_price"

\* filter(<price_field>__gte=min_price) and filter(<price_field>__lte=max_price),
\* each applied when its parameter is given: TRUE when row p stays
price_filter(p, is_authenticated, role, min_price, max_price) ==
  LET field == price_field(is_authenticated, role) IN
    /\ (min_price # NoBound => p[field] >= min_price)
    /\ (max_price # NoBound => p[field] <= max_price)

\* ProductViewSet.list over get_queryset, for one stored row p
ListByPrice(p, principal, min_price, max_price) ==
  /\ inflight' = <<[op |-> "list", product |-> p, principal |-> principal,
                    min_price |-> min_price, max_price |-> max_price,
                    returned |-> price_filter(p, principal.is_authenticated, principal.role,
                                              min_price, max_price)]>>
  /\ UNCHANGED <<users, next_id, products, next_pid>>

\* ProductViewSet.search: get_queryset, then the same two filters once more
SearchByPrice(p, principal, min_price, max_price) ==
  /\ inflight' = <<[op |-> "search", product |-> p, principal |-> principal,
                    min_price |-> min_price, max_price |-> max_price,
                    returned |->
                      /\ price_filter(p, principal.is_authenticated, principal.role,
                                      min_price, max_price)
                      /\ price_filter(p, principal.is_authenticated, principal.role,
                                      min_price, max_price)]>>
  /\ UNCHANGED <<users, next_id, products, next_pid>>

\* one request per behaviour
FilterNext ==
  \/ /\ inflight = NoRequests
     /\ \E p \in FilteredProducts, principal \in FilterPrincipals,
           min_price \in PriceBounds, max_price \in PriceBounds :
          ListByPrice(p, principal, min_price, max_price)
  \/ /\ inflight = NoRequests
     /\ \E p \in FilteredProducts, principal \in FilterPrincipals,
           min_price \in PriceBounds, max_price \in PriceBounds :
          SearchByPrice(p, principal, min_price, max_price)

FilterSpec == Init /\ [][FilterNext]_vars

\* amount lies within the bounds that were given
WithinRange(amount, min_price, max_price) ==
  /\ (min_price # -1 => amount >= min_price)
  /\ (max_price # -1 => amount <= max_price)

(* C29: for every principal role and for unauthenticated principals, the
   field the min_price/max_price filters of list and search compare is the
   field whose amount get_price_for_user shows to that principal, so every
   product returned under a price filter shows a price within the requested
   range; for Admin the filtered field is end_user_price, one of the fields
   disclosed to Admin. *)
C29_ReturnedPriceWithinRange ==
  \A i \in DOMAIN inflight :
    LET c == inflight[i]
        shown == get_price_for_user(c.product, c.principal.is_authenticated,
                                    c.principal.role) IN
      (c.op \in {"list", "search"} /\ c.returned) =>
        IF c.principal.is_authenticated /\ c.principal.role = "admin"
        THEN WithinRange(shown["end_user_price"], c.min_price, c.max_price)
        ELSE WithinRange(shown, c.min_price, c.max_price)

====
